---- MODULE Spec2Model ----
(***************************************************************************)
(* Model of src/server.js: the Shopify "orders-updated" webhook that       *)
(* relays fulfilled orders to WebStock.  The file holds two snapshots of   *)
(* the server: lines 1-349 (with the sentOrders registry) and lines        *)
(* 351-625 (without it).  The variable snapshot says which one runs.       *)
(*                                                                         *)
(* JavaScript values are tagged records: Undefined, Null, NaN, Num(n),     *)
(* Str(s), Arr(s), objects.  A string is a sequence of one-character       *)
(* strings.  A number n is held as the integer 100 * n (two decimals).     *)
(***************************************************************************)
EXTENDS Integers, Sequences, FiniteSets

VARIABLES snapshot,    \* 1: src/server.js:1-349, 2: src/server.js:351-625
          secret,      \* SHOPIFY_WEBHOOK_SECRET (process.env, fixed at start)
          sentOrders,  \* the Set of order ids already pushed (snapshot 1)
          handled,     \* number of webhook requests received so far
          cur,         \* the request whose handler runs on the event loop
          tasks,       \* the handlers that passed the fulfillment gate
          vIn,         \* a function under test on its own: its arguments
          vOut         \* a function under test on its own: its result

vars == <<snapshot, secret, sentOrders, handled, cur, tasks, vIn, vOut>>

\* Bound: the number of webhook requests in one run.
MaxRequests == 2

----------------------------------------------------------------------------
(* JavaScript values *)

Undefined == [t |-> "undefined"]
Null == [t |-> "null"]
NaN == [t |-> "NaN"]
Threw == [t |-> "throw"]
NotCalled == [t |-> "none"]    \* the result of a call not made or not ended
Num(n) == [t |-> "number", v |-> 100 * n]
Cents(c) == [t |-> "number", v |-> c]
Str(s) == [t |-> "string", v |-> s]
Arr(s) == [t |-> "array", v |-> s]

\* !v
Falsy(v) ==
  \/ v.t \in {"undefined", "null", "NaN"}
  \/ v.t = "string" /\ v.v = <<>>
  \/ v.t = "number" /\ v.v = 0

\* a || b
Or(a, b) == IF Falsy(a) THEN b ELSE a

\* o.f for a parsed JSON value o: a primitive has no such property, and a
\* property the object does not have reads undefined
Get(o, f) == IF o.t = "object" /\ f \in DOMAIN o THEN o[f] ELSE Undefined

Digits == <<"0", "1", "2", "3", "4", "5", "6", "7", "8", "9">>
IsDigit(c) == \E i \in 1..10 : Digits[i] = c
DigitVal(c) == (CHOOSE i \in 1..10 : Digits[i] = c) - 1

RECURSIVE NatToStr(_)
NatToStr(n) ==
  IF n < 10 THEN <<Digits[n + 1]>>
  ELSE NatToStr(n \div 10) \o <<Digits[(n % 10) + 1]>>

\* the decimals of c hundredths, without trailing zeros
FracToStr(f) ==
  IF f = 0 THEN <<>>
  ELSE IF f % 10 = 0 THEN <<".", Digits[(f \div 10) + 1]>>
  ELSE <<".", Digits[(f \div 10) + 1], Digits[(f % 10) + 1]>>

\* String(v), `${v}`
JsString(v) ==
  CASE v.t = "string" -> v.v
    [] v.t = "number" ->
         LET a == IF v.v < 0 THEN 0 - v.v ELSE v.v
         IN (IF v.v < 0 THEN <<"-">> ELSE <<>>)
              \o NatToStr(a \div 100) \o FracToStr(a % 100)
    [] v.t = "undefined" -> <<"u", "n", "d", "e", "f", "i", "n", "e", "d">>
    [] v.t = "null" -> <<"n", "u", "l", "l">>
    [] v.t = "NaN" -> <<"N", "a", "N">>
    [] OTHER -> <<"[", "o", "b", "j", "e", "c", "t", "]">>

Upper == <<"A", "B", "C", "D", "E", "F", "G", "H", "I", "J", "K", "L", "M",
           "N", "O", "P", "Q", "R", "S", "T", "U", "V", "W", "X", "Y", "Z">>
Lower == <<"a", "b", "c", "d", "e", "f", "g", "h", "i", "j", "k", "l", "m",
           "n", "o", "p", "q", "r", "s", "t", "u", "v", "w", "x", "y", "z">>

toLowerCase(s) ==
  [i \in 1..Len(s) |->
     IF \E k \in 1..26 : Upper[k] = s[i]
     THEN Lower[CHOOSE k \in 1..26 : Upper[k] = s[i]]
     ELSE s[i]]

\* String.prototype.toUpperCase
toUpperCase(s) ==
  [i \in 1..Len(s) |->
     IF \E k \in 1..26 : Lower[k] = s[i]
     THEN Upper[CHOOSE k \in 1..26 : Lower[k] = s[i]]
     ELSE s[i]]

IsSpace(c) == c \in {" ", "\t", "\n"}

RECURSIVE trimStart(_)
trimStart(s) ==
  IF s # <<>> /\ IsSpace(Head(s)) THEN trimStart(Tail(s)) ELSE s

RECURSIVE trimEnd(_)
trimEnd(s) ==
  IF s # <<>> /\ IsSpace(s[Len(s)])
  THEN trimEnd(SubSeq(s, 1, Len(s) - 1))
  ELSE s

trim(s) == trimEnd(trimStart(s))

\* the longest prefix of s made of digits
RECURSIVE DigitRun(_)
DigitRun(s) ==
  IF s # <<>> /\ IsDigit(Head(s)) THEN <<Head(s)>> \o DigitRun(Tail(s))
  ELSE <<>>

RECURSIVE StrToNat(_)
StrToNat(s) ==
  IF s = <<>> THEN 0
  ELSE 10 * StrToNat(SubSeq(s, 1, Len(s) - 1)) + DigitVal(s[Len(s)])

\* parseFloat(v): the decimal number s starts with, in hundredths, else NaN
parseFloat(v) ==
  IF v.t = "number" THEN v
  ELSE IF v.t # "string" THEN NaN
  ELSE
    LET s0 == trimStart(v.v)
        neg == s0 # <<>> /\ Head(s0) = "-"
        s1 == IF s0 # <<>> /\ Head(s0) \in {"-", "+"} THEN Tail(s0) ELSE s0
        ip == DigitRun(s1)
        r1 == SubSeq(s1, Len(ip) + 1, Len(s1))
        fp == IF r1 # <<>> /\ Head(r1) = "." THEN DigitRun(Tail(r1)) ELSE <<>>
        f2 == SubSeq(fp \o <<"0", "0">>, 1, 2)
        mag == 100 * StrToNat(ip) + StrToNat(f2)
    IN IF ip = <<>> /\ fp = <<>> THEN NaN
       ELSE Cents(IF neg THEN 0 - mag ELSE mag)

----------------------------------------------------------------------------
(* Product mapping and article resolution *)

FRUIT_PUNCH == <<"f", "r", "u", "i", "t", " ", "p", "u", "n", "c", "h">>
BLUE_RAZZBERRY ==
  <<"b", "l", "u", "e", " ", "r", "a", "z", "z", "b", "e", "r", "r", "y">>
JUICY_MANGO == <<"j", "u", "i", "c", "y", " ", "m", "a", "n", "g", "o">>
ORANGE_BLAST == <<"o", "r", "a", "n", "g", "e", " ", "b", "l", "a", "s", "t">>

EAN_FRUIT_PUNCH ==
  <<"8", "7", "2", "0", "8", "9", "2", "6", "4", "2", "7", "3", "8">>
EAN_BLUE_RAZZBERRY ==
  <<"8", "7", "2", "0", "8", "9", "2", "6", "4", "2", "7", "1", "4">>
EAN_JUICY_MANGO ==
  <<"8", "7", "2", "0", "8", "9", "2", "6", "4", "2", "7", "5", "2">>
EAN_ORANGE_BLAST ==
  <<"8", "7", "2", "0", "8", "9", "2", "6", "4", "2", "7", "7", "6">>

\* An all-lowercase property every object literal inherits from
\* Object.prototype, so that TITLE_TO_EAN_MAP[key] is a function, not
\* undefined.
CONSTRUCTOR == <<"c", "o", "n", "s", "t", "r", "u", "c", "t", "o", "r">>
InheritedFunction == [t |-> "function"]

\* TITLE_TO_EAN_MAP[key]
TITLE_TO_EAN_MAP(key) ==
  CASE key = FRUIT_PUNCH -> Str(EAN_FRUIT_PUNCH)
    [] key = BLUE_RAZZBERRY -> Str(EAN_BLUE_RAZZBERRY)
    [] key = JUICY_MANGO -> Str(EAN_JUICY_MANGO)
    [] key = ORANGE_BLAST -> Str(EAN_ORANGE_BLAST)
    [] key = CONSTRUCTOR -> InheritedFunction
    [] OTHER -> Undefined

\* Mutant of normalizeTitle: the title is trimmed but not lowercased.
normalizeTitleKeepCase(title) ==
  IF Falsy(title) THEN <<>> ELSE trim(JsString(title))

normalizeTitle(title) ==
  IF Falsy(title) THEN <<>> ELSE toLowerCase(trim(JsString(title)))

resolveArticleFromItem(item) ==
  LET normalized == normalizeTitle(item.title)
      ean == TITLE_TO_EAN_MAP(normalized)
  IN IF ~Falsy(ean)
     THEN [articleNumber |-> ean, ean |-> ean]
     ELSE [articleNumber |->
             Or(item.sku, Or(item.title, Str(<<"U", "N", "K", "N", "O", "W", "N">>))),
           ean |-> Str(<<>>)]

\* One Shopify line item -> one WebStock order line.  Reading a property
\* of null or undefined throws; the other fields of the line are literals.
mapLineItemToWebStockLine(item) ==
  IF item.t \in {"null", "undefined"} THEN Threw
  ELSE
    LET a == resolveArticleFromItem(item)
    IN [t |-> "object",
        ArticleNumber |-> a.articleNumber,
        Eancode |-> a.ean,
        PackagingUnit |-> Str(<<"s", "t">>),
        PackagingQuantity |-> Num(1),
        ProductName |-> Or(item.title, Str(<<>>)),
        ProductDescription |->
          Or(item.variant_title, Or(item.title, Str(<<>>))),
        QuantityOrdered |-> Or(item.quantity, Num(0)),
        QuantityDelivered |-> Num(0),
        PricePerArticle |-> parseFloat(Or(item.price, Num(0)))]

WEBSTOCK_ORDER_PREFIX == <<"G", "W", "T">>

\* Mutant of OrderLines: the lines come out in reverse order.
OrderLinesReversed(order) ==
  LET li == Or(order.line_items, Arr(<<>>))
  IN IF li.t # "array" THEN Threw
     ELSE LET n == Len(li.v)
              lines == [i \in 1..n |-> mapLineItemToWebStockLine(li.v[n + 1 - i])]
          IN IF \E i \in 1..n : lines[i].t = "throw" THEN Threw
             ELSE Arr(lines)

\* (order.line_items || []).map(mapLineItemToWebStockLine)
OrderLines(order) ==
  LET li == Or(order.line_items, Arr(<<>>))
  IN IF li.t # "array" THEN Threw    \* .map is not a function
     ELSE LET lines == [i \in 1..Len(li.v) |-> mapLineItemToWebStockLine(li.v[i])]
          IN IF \E i \in 1..Len(lines) : lines[i].t = "throw" THEN Threw
             ELSE Arr(lines)

WEBSTOCK_MAIN_CUSTOMER_NUMBER ==
  <<"C", "u", "s", "t", "0", "0", "1", "2", "6", "6">>
WEBSTOCK_MAIN_CUSTOMER_NAME == <<"G", "W", "T", "-", "S", "B", "G", " ", "B", "V">>

\* The empty object of `order.shipping_address || {}`.
NoFields == [t |-> "object"]

\* `${a || ""} ${b || ""}`.trim()
JoinedName(a, b) ==
  Str(trim(JsString(Or(a, Str(<<>>))) \o <<" ">> \o JsString(Or(b, Str(<<>>)))))

\* First snapshot: the name of the end customer (the recipient).
endCustomerName(order) ==
  LET shipping == Or(Get(order, "shipping_address"), NoFields)
  IN Or(Get(shipping, "company"),
        Or(JoinedName(Get(shipping, "first_name"), Get(shipping, "last_name")),
           Or(Get(shipping, "name"), Str(<<>>))))

\* Mutant of customerName: the shipping name goes before the customer's.
customerNameShippingFirst(order) ==
  LET shipping == Or(Get(order, "shipping_address"), NoFields)
      customer == Or(Get(order, "customer"), NoFields)
  IN Or(Get(shipping, "name"),
        Or(JoinedName(Get(customer, "first_name"), Get(customer, "last_name")),
           Get(order, "name")))

\* Second snapshot: the customer name.
customerName(order) ==
  LET shipping == Or(Get(order, "shipping_address"), NoFields)
      customer == Or(Get(order, "customer"), NoFields)
  IN Or(JoinedName(Get(customer, "first_name"), Get(customer, "last_name")),
        Or(Get(shipping, "name"), Get(order, "name")))

----------------------------------------------------------------------------
(* Address decomposition *)

SpaceChars == {" ", "\t", "\n"}                        \* \s
DigitChars == {Digits[k] : k \in 1..10}                \* \d
LetterChars == {Upper[k] : k \in 1..26} \cup {Lower[k] : k \in 1..26}
ClassChars == LetterChars \cup DigitChars \cup {"-", "/"}  \* [A-Za-z0-9\-\/]
LineBreaks == {"\n"}                                   \* what . does not match

\* The length of the longest run of characters of set that starts at
\* position p of s (a greedy quantifier).
RECURSIVE Run(_, _, _)
Run(s, p, set) ==
  IF p <= Len(s) /\ s[p] \in set THEN 1 + Run(s, p + 1, set) ELSE 0

Min(a, b) == IF a <= b THEN a ELSE b

\* The end of the match after a street of i characters, j whitespace
\* characters, k digits and m characters of the class: \s*$ must take
\* what is left.
AfterAddition(s, i, j, k, m) ==
  [j |-> j, k |-> k, m |-> m,
   ok |-> j >= 1 /\ k >= 1
            /\ i + j + k + m + Run(s, i + j + k + m + 1, SpaceChars) = Len(s)]

\* ([A-Za-z0-9\-\/]*) after k digits
AfterDigits(s, i, j, k) ==
  AfterAddition(s, i, j, k, Run(s, i + j + k + 1, ClassChars))

\* Mutant of AfterSpace: \d+ instead of \d{1,5}.
AfterSpaceAnyDigits(s, i, j) ==
  AfterDigits(s, i, j, Run(s, i + j + 1, DigitChars))

\* (\d{1,5}) after j whitespace characters: five digits at most, the
\* digits past the fifth are left to the class that follows
AfterSpace(s, i, j) ==
  AfterDigits(s, i, j, Min(5, Run(s, i + j + 1, DigitChars)))

\* The rest of s after a street of i characters, matched against
\* \s+(\d{1,5})([A-Za-z0-9\-\/]*)\s*$ with every quantifier greedy (a
\* quantifier that gives characters back cannot make this match succeed,
\* since whitespace, digits-then-class and the end follow one another).
RestAfter(s, i) == AfterSpace(s, i, Run(s, i + 1, SpaceChars))

\* The lengths i for which ^(.+?) can stop after i characters.
StreetEnds(s) ==
  {i \in 1..Len(s) :
     /\ \A q \in 1..i : s[q] \notin LineBreaks
     /\ RestAfter(s, i).ok}

\* The groups of the match whose street has i characters.
Groups(s, i, r) ==
  [t |-> "match",
   g1 |-> SubSeq(s, 1, i),
   g2 |-> SubSeq(s, i + r.j + 1, i + r.j + r.k),
   g3 |-> SubSeq(s, i + r.j + r.k + 1, i + r.j + r.k + r.m)]

\* The lazy (.+?) takes the shortest of the streets that let the rest
\* match.
ShortestStreet(s, ends) ==
  IF ends = {} THEN Null
  ELSE Groups(s, CHOOSE a \in ends : \A b \in ends : a <= b,
              RestAfter(s, CHOOSE a \in ends : \A b \in ends : a <= b))

\* trimmed.match(/^(.+?)\s+(\d{1,5})([A-Za-z0-9\-\/]*)\s*$/)
RegexMatch(s) == ShortestStreet(s, StreetEnds(s))

Parts(street, houseNumber, houseNumberAddition) ==
  [t |-> "object", street |-> Str(street), houseNumber |-> Str(houseNumber),
   houseNumberAddition |-> Str(houseNumberAddition)]

\* The result of splitStreetAndHouse from the trimmed text and its match.
PartsOfMatch(trimmed, match) ==
  IF match = Null THEN Parts(trimmed, <<>>, <<>>)
  ELSE Parts(trim(match.g1), trim(match.g2), trim(match.g3))

SplitTrimmed(trimmed) == PartsOfMatch(trimmed, RegexMatch(trimmed))

splitStreetAndHouse(address) ==
  IF Falsy(address) THEN Parts(<<>>, <<>>, <<>>)
  ELSE SplitTrimmed(trim(JsString(address)))

----------------------------------------------------------------------------
(* The order transformer *)

\* The payload of the first snapshot from the order, its shipping
\* address, the parts of its address line, the end customer's name and
\* its order lines (the fields that depend on the order; the others are
\* literals).
Payload(order, shipping, split, recipient, lines) ==
  IF lines.t = "throw" THEN Threw
  ELSE [t |-> "object",
        SalesOrderExternId |-> order.id,
        SalesOrderNumber |->
          Str(WEBSTOCK_ORDER_PREFIX \o JsString(order.order_number)),
        Status |-> Num(10),
        CustomerNumber |-> Str(WEBSTOCK_MAIN_CUSTOMER_NUMBER),
        CustomerName |-> Str(WEBSTOCK_MAIN_CUSTOMER_NAME),
        CustomerReference |-> Get(order, "name"),
        Address2Name |-> recipient,
        AddressContactPerson2 |-> recipient,
        AddressStreet2 |-> split.street,
        AddressHouseNumber2 |-> split.houseNumber,
        AddressHouseNumberAddition2 |->
          Or(Get(shipping, "address2"), split.houseNumberAddition),
        OrderLines |-> lines]

PayloadTo(order, shipping) ==
  Payload(order, shipping,
          splitStreetAndHouse(Or(Get(shipping, "address1"), Str(<<>>))),
          endCustomerName(order), OrderLines(order))

\* A whole Shopify order -> the WebStock SalesOrder payload, first
\* snapshot.
buildWebStockOrderFromShopify(order) ==
  PayloadTo(order, Or(Get(order, "shipping_address"), NoFields))

\* The same, second snapshot.
buildWebStockOrderFromShopify2(order) ==
  LET shipping == Or(Get(order, "shipping_address"), NoFields)
      lines == OrderLines(order)
  IN IF lines.t = "throw" THEN Threw
     ELSE [t |-> "object",
           SalesOrderExternId |-> order.id,
           SalesOrderNumber |->
             Str(WEBSTOCK_ORDER_PREFIX \o JsString(order.order_number)),
           Status |-> Num(10),
           CustomerName |-> customerName(order),
           CustomerContact |-> Or(Get(shipping, "name"), Str(<<>>)),
           CustomerReference |-> Get(order, "name"),
           AddressContactPerson1 |-> Or(Get(shipping, "name"), Str(<<>>)),
           AddressStreet1 |-> Or(Get(shipping, "address1"), Str(<<>>)),
           OrderLines |-> lines]

----------------------------------------------------------------------------
(* Signature verification *)

\* The request body as the handler gets it: a Buffer of the raw bytes, or
\* the empty object body-parser leaves when it did not read the body.
Buffer(text) == [t |-> "buffer", text |-> text]
EmptyObject == [t |-> "object0"]

\* The length of the base64 text of a 32-byte SHA-256 digest.
DigestLen == 44

\* createHmac("sha256", key).update(body).digest("base64"): a string of
\* DigestLen characters that is a different string for every key and body.
HmacSha256Base64(key, body) == [t |-> "digest", key |-> key, body |-> body]

ByteLength(s) == IF s.t = "digest" THEN DigestLen ELSE Len(s.v)

\* crypto.timingSafeEqual on the bytes of two strings: throws when the
\* lengths differ
timingSafeEqual(a, b) ==
  IF ByteLength(a) # ByteLength(b) THEN "throw"
  ELSE IF a = b THEN "true" ELSE "false"

\* Mutant of verifyShopifyHmac: the digest is never compared.
verifyShopifyHmacHeaderOnly(sec, rawBody, hmacHeader) ==
  IF Falsy(sec) \/ Falsy(hmacHeader) THEN "false" ELSE "true"

\* Mutant of verifyShopifyHmac: the comparison is not inside try/catch.
verifyShopifyHmacNoCatch(sec, rawBody, hmacHeader) ==
  IF Falsy(sec) \/ Falsy(hmacHeader) THEN "false"
  ELSE IF rawBody.t # "buffer" THEN "throw"
  ELSE timingSafeEqual(HmacSha256Base64(sec, rawBody), hmacHeader)

\* verifyShopifyHmac: "true", "false", or "throw" when hash.update rejects
\* a body that is neither a string nor a Buffer
verifyShopifyHmac(sec, rawBody, hmacHeader) ==
  IF Falsy(sec) \/ Falsy(hmacHeader) THEN "false"
  ELSE IF rawBody.t # "buffer" THEN "throw"
  ELSE LET digest == HmacSha256Base64(sec, rawBody)
           eq == timingSafeEqual(digest, hmacHeader)
       IN IF eq = "throw" THEN "false" ELSE eq

----------------------------------------------------------------------------
(* The webhook handler *)

\* The text of a body: not JSON at all, or the JSON text of a value.
Garbage == [garbage |-> TRUE]
Json(v) == [json |-> v]

\* JSON.parse(rawBody.toString()): the text of anything but a Buffer of
\* JSON is not JSON
JSONparse(rawBody) ==
  IF rawBody.t # "buffer" THEN Threw
  ELSE IF rawBody.text = Garbage THEN Threw
  ELSE rawBody.text.json

FULFILLED == <<"f", "u", "l", "f", "i", "l", "l", "e", "d">>

\* Mutant of isFulfilled: any status that is set qualifies.
isFulfilledTruthy(order) == ~Falsy(Get(order, "fulfillment_status"))

\* order.fulfillment_status === "fulfilled"
isFulfilled(order) == Get(order, "fulfillment_status") = Str(FULFILLED)

\* Mutant of sentOrdersHas: any earlier push counts as a hit.
sentOrdersHasAny(registry, id) == registry # {}

\* Mutant of sentOrdersAdd: the id is not recorded.
sentOrdersAddNothing(registry, id) == registry

\* Mutant of sentOrdersHas: ids are compared by their type only.
sentOrdersHasSameType(registry, id) == \E k \in registry : k.t = id.t

\* Mutant of sentOrdersAdd: the new id takes the place of the others.
sentOrdersAddReplaces(registry, id) == {id}

\* sentOrders.has(id), sentOrders.add(id)
sentOrdersHas(registry, id) == id \in registry
sentOrdersAdd(registry, id) == registry \cup {id}

\* What one run of the handler's synchronous part comes to: the steps it
\* took, the response it sent (status 0: none), whether an exception left
\* the handler, the registry it leaves, the payload it posted, and
\* whether it is suspended at the await of the outbound call.
Outcome(tr, esc, st, txt, reg, gated, id, pay, pc) ==
  [trace |-> tr, escaped |-> esc, status |-> st, reply |-> txt,
   registry |-> reg, gated |-> gated, id |-> id, payload |-> pay, pc |-> pc]

\* Mutant of PushOrder: the id is recorded once the document is built.
PushOrderAddAfterBuild(snap, registry, order, tr) ==
  LET id == Get(order, "id")
  IN IF snap = 1 /\ sentOrdersHas(registry, id)
     THEN Outcome(tr \o <<"has">>, FALSE, 200, "Already sent",
                  registry, TRUE, id, Undefined, "done")
     ELSE
       LET reg == IF snap = 1 THEN sentOrdersAdd(registry, id) ELSE registry
           payload == IF snap = 1 THEN buildWebStockOrderFromShopify(order)
                      ELSE buildWebStockOrderFromShopify2(order)
       IN IF payload.t = "throw"
          THEN Outcome(tr \o <<"has", "build">>, FALSE, 500, "Server error",
                       registry, TRUE, id, Undefined, "done")
          ELSE Outcome(tr \o <<"has", "build", "add", "fetch">>, FALSE, 0, "",
                       reg, TRUE, id, payload, "fetch")

\* The steps 3b and 4 of the handler, for an order that passed the gate.
PushOrder(snap, registry, order, tr) ==
  LET id == Get(order, "id")
  IN IF snap = 1 /\ sentOrdersHas(registry, id)
     THEN Outcome(tr \o <<"has">>, FALSE, 200, "Already sent",
                  registry, TRUE, id, Undefined, "done")
     ELSE
       LET reg == IF snap = 1 THEN sentOrdersAdd(registry, id) ELSE registry
           tr2 == IF snap = 1 THEN tr \o <<"has", "add">> ELSE tr
           payload == IF snap = 1 THEN buildWebStockOrderFromShopify(order)
                      ELSE buildWebStockOrderFromShopify2(order)
       IN IF payload.t = "throw"
          THEN Outcome(tr2 \o <<"build">>, FALSE, 500, "Server error",
                       reg, TRUE, id, Undefined, "done")
          ELSE Outcome(tr2 \o <<"build", "fetch">>, FALSE, 0, "",
                       reg, TRUE, id, payload, "fetch")

\* app.post("/webhooks/shopify/orders-updated", ...) up to its first await
HandleWebhook(snap, sec, registry, req) ==
  LET ok == verifyShopifyHmac(sec, req.body, req.hmac)
  IN IF ok = "throw"
     THEN Outcome(<<"verify">>, TRUE, 0, "", registry,
                  FALSE, Undefined, Undefined, "done")
     ELSE IF ok = "false"
     THEN Outcome(<<"verify">>, FALSE, 401, "Unauthorized", registry,
                  FALSE, Undefined, Undefined, "done")
     ELSE
       LET order == JSONparse(req.body)
       IN IF order.t = "throw"
          THEN Outcome(<<"verify", "parse">>, FALSE, 400, "Invalid JSON",
                       registry, FALSE, Undefined, Undefined, "done")
          ELSE IF order.t = "null"  \* console.log(..., order.name) throws
          THEN Outcome(<<"verify", "parse">>, TRUE, 0, "", registry,
                       FALSE, Undefined, Undefined, "done")
          ELSE IF ~isFulfilled(order)
          THEN Outcome(<<"verify", "parse", "gate">>, FALSE, 200,
                       "No action", registry,
                       FALSE, Undefined, Undefined, "done")
          ELSE PushOrder(snap, registry, order, <<"verify", "parse", "gate">>)

\* new Error(`WebStock ${res.status}: ${text}`)
WebStockError(status, text) ==
  [t |-> "throw", error |-> "WebStock", status |-> status, text |-> text]

\* Mutant of AfterFetch: a response that is not 2xx makes the call again.
AfterFetchRetries(task, outcome) ==
  IF outcome = "reject"
  THEN [task EXCEPT !.pc = "done", !.status = 500, !.reply = "Server error",
                    !.backend = "reject",
                    !.result = [t |-> "throw", error |-> "fetch"]]
  ELSE IF outcome = "non2xx" /\ task.posts = 1
  THEN [task EXCEPT !.pc = "fetch", !.posts = 2]
  ELSE [task EXCEPT !.pc = "text", !.backend = outcome]

\* sendOrderToWebStock after the await of fetch: the response arrived
\* ("2xx", "non2xx") or fetch rejected ("reject"), which the handler's
\* catch answers
AfterFetch(task, outcome) ==
  IF outcome = "reject"
  THEN [task EXCEPT !.pc = "done", !.status = 500, !.reply = "Server error",
                    !.backend = "reject",
                    !.result = [t |-> "throw", error |-> "fetch"]]
  ELSE [task EXCEPT !.pc = "text", !.backend = outcome]

\* Mutant of AfterText: res.ok is not looked at.
AfterTextIgnoresOk(task, outcome) ==
  IF outcome = "text"
  THEN [task EXCEPT !.pc = "done", !.text = outcome, !.status = 200,
                    !.reply = "Order sent to WebStock (orders-updated)"]
  ELSE [task EXCEPT !.pc = "done", !.text = outcome, !.status = 500,
                    !.reply = "Server error"]

\* sendOrderToWebStock after the await of res.text() ("text", or "reject"
\* when reading the body failed), and the handler's response: it throws
\* unless res.ok
AfterText(task, outcome) ==
  IF outcome = "text" /\ task.backend = "2xx"
  THEN [task EXCEPT !.pc = "done", !.text = outcome, !.status = 200,
                    !.reply = "Order sent to WebStock (orders-updated)",
                    !.result = [t |-> "return", text |-> outcome]]
  ELSE [task EXCEPT !.pc = "done", !.text = outcome, !.status = 500,
                    !.reply = "Server error",
                    !.result = IF outcome = "text"
                               THEN WebStockError(task.backend, outcome)
                               ELSE [t |-> "throw", error |-> "text"]]

\* Mutant of CatchRegistry: a failed push makes the order eligible again.
CatchRegistryUnmark(registry, task) == registry \ {task.id}

\* The registry after the handler's catch block answered 500 for a task:
\* the catch logs and responds, and leaves sentOrders as it is.
CatchRegistry(registry, task) == registry

----------------------------------------------------------------------------
(* The requests the model sends *)

PARTIAL == <<"p", "a", "r", "t", "i", "a", "l">>

Item(title, sku, quantity, price) ==
  [t |-> "object", title |-> title, sku |-> sku, variant_title |-> Undefined,
   quantity |-> quantity, price |-> price]

BlueRazzItem ==
  Item(Str(<<"B", "l", "u", "e", " ", "R", "a", "z", "z", "b", "e", "r", "r", "y">>),
       Undefined, Num(2), Str(<<"9", ".", "5", "0">>))
ColaItem ==
  Item(Str(<<"C", "o", "l", "a">>), Str(<<"C", "1">>), Num(1), Cents(125))

OrderIds == {Num(101), Num(102), Undefined}
Statuses == {Str(FULFILLED), Str(PARTIAL), Null, Undefined}
LineItemLists ==
  {Undefined, Str(<<"x">>), Arr(<<>>), Arr(<<BlueRazzItem>>),
   Arr(<<BlueRazzItem, ColaItem>>), Arr(<<Null>>)}

\* The shop numbers its orders: an order id has one sequence number.
OrderNumberOf(id) ==
  CASE id = Num(101) -> Num(1042)
    [] id = Num(102) -> Num(7)
    [] OTHER -> Undefined

Order(id, fs, num, li) ==
  [t |-> "object", id |-> id, fulfillment_status |-> fs,
   order_number |-> num, line_items |-> li]

Orders ==
  {Order(id, fs, OrderNumberOf(id), li) :
     id \in OrderIds, fs \in Statuses, li \in LineItemLists}

RawBodies == {Buffer(Garbage)} \cup {Buffer(Json(v)) : v \in {Null, Num(7)} \cup Orders}

ShopKey == Str(<<"k", "1">>)
OtherKey == Str(<<"k", "2">>)
ForgedHeader == Str([i \in 1..DigestLen |-> "A"])
ShortHeader == Str(<<"x">>)

\* Every body unsigned, signed by the shop and signed with another key, and
\* a request whose body was not read as raw bytes, with and without header.
Requests ==
  {[body |-> b, hmac |-> Undefined] : b \in RawBodies}
  \cup {[body |-> b, hmac |-> HmacSha256Base64(k, b)] :
          b \in RawBodies, k \in {ShopKey, OtherKey}}
  \cup {[body |-> EmptyObject, hmac |-> h] : h \in {Undefined, ForgedHeader}}

----------------------------------------------------------------------------
(* The server *)

Idle == [n |-> 0]

\* posts counts the POSTs of the handler's sendOrderToWebStock call, result
\* is what that call returned or threw.
NewTask(n, out) ==
  [n |-> n, id |-> out.id, pc |-> out.pc, called |-> out.pc = "fetch",
   backend |-> "none", text |-> "none", status |-> out.status,
   reply |-> out.reply,
   posts |-> IF out.pc = "fetch" THEN 1 ELSE 0, result |-> NotCalled]

InitServer ==
  /\ secret \in {Undefined, ShopKey}
  /\ sentOrders = {}
  /\ handled = 0
  /\ cur = Idle
  /\ tasks = <<>>

NoVerifyCall ==
  /\ vIn = Undefined
  /\ vOut = "none"

Init ==
  /\ snapshot = 1
  /\ InitServer
  /\ NoVerifyCall

InitSnapshots ==
  /\ snapshot \in {1, 2}
  /\ InitServer
  /\ NoVerifyCall

\* A request arrives and its handler runs up to its first await, or to
\* its end.
Receive(req) ==
  /\ cur = Idle
  /\ handled < MaxRequests
  /\ LET out == HandleWebhook(snapshot, secret, sentOrders, req)
     IN /\ cur' = [n |-> handled + 1, req |-> req, before |-> sentOrders,
                   out |-> out]
        /\ sentOrders' = out.registry
        /\ tasks' = IF out.gated
                    THEN Append(tasks, NewTask(handled + 1, out))
                    ELSE tasks
  /\ handled' = handled + 1
  /\ UNCHANGED <<snapshot, secret, vIn, vOut>>

\* The handler returns to the event loop.
Yield ==
  /\ cur # Idle
  /\ cur' = Idle
  /\ UNCHANGED <<snapshot, secret, sentOrders, handled, tasks, vIn, vOut>>

\* The backend's response arrives, or the call fails.
FetchSettles(i, outcome) ==
  /\ cur = Idle
  /\ tasks[i].pc = "fetch"
  /\ tasks' = [tasks EXCEPT ![i] = AfterFetch(tasks[i], outcome)]
  /\ sentOrders' = IF tasks'[i].status = 500
                   THEN CatchRegistry(sentOrders, tasks'[i])
                   ELSE sentOrders
  /\ UNCHANGED <<snapshot, secret, handled, cur, vIn, vOut>>

\* The response body was read, or reading it failed.
TextSettles(i, outcome) ==
  /\ cur = Idle
  /\ tasks[i].pc = "text"
  /\ tasks' = [tasks EXCEPT ![i] = AfterText(tasks[i], outcome)]
  /\ sentOrders' = IF tasks'[i].status = 500
                   THEN CatchRegistry(sentOrders, tasks'[i])
                   ELSE sentOrders
  /\ UNCHANGED <<snapshot, secret, handled, cur, vIn, vOut>>

Next ==
  \/ \E req \in Requests : Receive(req)
  \/ Yield
  \/ \E i \in 1..Len(tasks), o \in {"2xx", "non2xx", "reject"} : FetchSettles(i, o)
  \/ \E i \in 1..Len(tasks), o \in {"text", "reject"} : TextSettles(i, o)

Spec == Init /\ [][Next]_vars

SpecSnapshots == InitSnapshots /\ [][Next]_vars

----------------------------------------------------------------------------
(* verifyShopifyHmac on its own *)

VerifySecrets == {Undefined, Str(<<>>), ShopKey}

VerifyBodies ==
  {Buffer(Garbage), Buffer(Json(Null)), Buffer(Json(Num(7))),
   Buffer(Json(Order(Num(101), Str(FULFILLED), Num(1042), Arr(<<BlueRazzItem>>)))),
   EmptyObject}

VerifyHeaders ==
  {Undefined, Str(<<>>), ShortHeader, ForgedHeader}
  \cup {HmacSha256Base64(k, b) :
          k \in {ShopKey, OtherKey}, b \in VerifyBodies \ {EmptyObject}}

InitVerify ==
  /\ snapshot = 1
  /\ secret \in VerifySecrets
  /\ sentOrders = {}
  /\ handled = 0
  /\ cur = Idle
  /\ tasks = <<>>
  /\ vIn \in [body : VerifyBodies, hmac : VerifyHeaders]
  /\ vOut = "none"

VerifyCall ==
  /\ vOut = "none"
  /\ vIn # Undefined
  /\ vOut' = verifyShopifyHmac(secret, vIn.body, vIn.hmac)
  /\ UNCHANGED <<snapshot, secret, sentOrders, handled, cur, tasks, vIn>>

NextVerify == VerifyCall

SpecVerify == InitVerify /\ [][NextVerify]_vars

----------------------------------------------------------------------------
(* The functions of the transformer on their own: vIn holds the argument, *)
(* vOut the result once the function has been called.                     *)

\* The server's variables while a function is under test.
ServerAtRest ==
  /\ snapshot = 1
  /\ secret = Undefined
  /\ sentOrders = {}
  /\ handled = 0
  /\ cur = Idle
  /\ tasks = <<>>

UNKNOWN == <<"U", "N", "K", "N", "O", "W", "N">>
COLA == <<"c", "o", "l", "a">>

\* A title as the shop may write it: as it is, in capitals, and with
\* whitespace around it.
TitleVariants(base) ==
  {Str(base), Str(toUpperCase(base)), Str(<<" ">> \o base \o <<" ", "\t">>),
   Str(<<"\n">> \o toUpperCase(base) \o <<" ">>)}

ResolveTitles ==
  UNION {TitleVariants(b) :
           b \in {FRUIT_PUNCH, BLUE_RAZZBERRY, JUICY_MANGO, ORANGE_BLAST,
                  COLA, CONSTRUCTOR}}
  \cup {Undefined, Null, Str(<<>>), Str(<<" ">>)}

ResolveSkus == {Undefined, Null, Str(<<>>), Str(<<"C", "1">>)}

ResolveItems ==
  {Item(title, sku, Num(1), Num(1)) : title \in ResolveTitles, sku \in ResolveSkus}

InitResolve ==
  /\ ServerAtRest
  /\ vIn \in ResolveItems
  /\ vOut = NotCalled

ResolveCall ==
  /\ vOut = NotCalled
  /\ vOut' = resolveArticleFromItem(vIn)
  /\ UNCHANGED <<snapshot, secret, sentOrders, handled, cur, tasks, vIn>>

NextResolve == ResolveCall

SpecResolve == InitResolve /\ [][NextResolve]_vars

\* Bound: the length of the generated address lines.
MaxAddressLen == 4

AddressAlphabet == {"a", " ", "1", "-"}

MAIN_STREET == <<"M", "a", "i", "n", " ", "S", "t", "r", "e", "e", "t">>

\* The address lines of the code's comments and of the documentation, a
\* line with a long number, a line of two lines, and values that are not
\* text.
AddressExamples ==
  {Str(MAIN_STREET \o <<" ", "2", "5">>),
   Str(MAIN_STREET \o <<" ", "1", "2", "A">>),
   Str(MAIN_STREET \o <<" ", "1", "0", "-", "3">>),
   Str(<<"N", "o", "N", "u", "m", "b", "e", "r", "H", "e", "r", "e">>),
   Str(<<" ">> \o MAIN_STREET \o <<" ", " ", "7", "/", "b", "\t">>),
   Str(MAIN_STREET \o <<" ", "1", "2", " ", "3", "4">>),
   Str(MAIN_STREET \o <<" ", "1", "2", "3", "4", "5", "6">>),
   Str(<<"F", "l", "a", "t", " ", "3", "\n">> \o MAIN_STREET \o <<" ", "2", "5">>),
   Str(MAIN_STREET \o <<"\n", "2", "5">>),
   Str(MAIN_STREET \o <<" ", "2", "5", "!">>),
   Undefined, Null, Num(25)}

Addresses ==
  {Str(a) : a \in UNION {[1..n -> AddressAlphabet] : n \in 0..MaxAddressLen}}
  \cup AddressExamples

InitSplit ==
  /\ ServerAtRest
  /\ vIn \in Addresses
  /\ vOut = NotCalled

SplitCall ==
  /\ vOut = NotCalled
  /\ vOut' = splitStreetAndHouse(vIn)
  /\ UNCHANGED <<snapshot, secret, sentOrders, handled, cur, tasks, vIn>>

NextSplit == SplitCall

SpecSplit == InitSplit /\ [][NextSplit]_vars

ABC == <<"a", "b", "c">>

LineQuantities == {Undefined, Null, Num(0), Num(2), Num(15), Str(<<>>), Str(ABC)}

LinePrices ==
  {Undefined, Null, Num(0), Num(3), Cents(125), Cents(1999), Str(<<>>),
   Str(<<"9", ".", "5", "0">>), Str(<<"1", "2">>), Str(<<"0", ".", "0", "5">>),
   Str(ABC)}

LineItems ==
  {Item(title, Undefined, quantity, price) :
     title \in {Str(BLUE_RAZZBERRY), Str(COLA)},
     quantity \in LineQuantities, price \in LinePrices}

InitLine ==
  /\ ServerAtRest
  /\ vIn \in LineItems
  /\ vOut = NotCalled

LineCall ==
  /\ vOut = NotCalled
  /\ vOut' = mapLineItemToWebStockLine(vIn)
  /\ UNCHANGED <<snapshot, secret, sentOrders, handled, cur, tasks, vIn>>

NextLine == LineCall

SpecLine == InitLine /\ [][NextLine]_vars

\* Bound: the number of line items of a generated order.
MaxLines == 3

JAN == <<"J", "a", "n">>
JANSEN == <<"J", "a", "n", "s", "e", "n">>
J_JANSEN == <<"J", ".", " ", "J", "a", "n", "s", "e", "n">>
ACME == <<"A", "c", "m", "e">>
ORDER_NAME == <<"#", "1", "0", "0", "1">>

Customers ==
  {Undefined, Null, NoFields,
   [t |-> "object", first_name |-> Str(JAN), last_name |-> Str(JANSEN)],
   [t |-> "object", first_name |-> Str(JAN), last_name |-> Null],
   [t |-> "object", first_name |-> Str(<<>>), last_name |-> Str(<<" ">>)]}

ShippingAddresses ==
  {Undefined,
   [t |-> "object", name |-> Str(J_JANSEN),
    address1 |-> Str(MAIN_STREET \o <<" ", "1", "2", "A">>)],
   [t |-> "object", name |-> Str(<<>>), company |-> Str(ACME),
    first_name |-> Str(JAN), last_name |-> Str(JANSEN)],
   [t |-> "object", first_name |-> Str(JAN), last_name |-> Str(JANSEN),
    name |-> Str(J_JANSEN), address1 |-> Str(MAIN_STREET), address2 |-> Str(<<"b">>)]}

\* The lists of up to MaxLines line items, no list, and what is not a
\* list of items.
BuildLineItems ==
  {Arr(l) : l \in UNION {[1..n -> {BlueRazzItem, ColaItem}] : n \in 0..MaxLines}}
  \cup {Undefined, Null, Str(<<"x">>), Arr(<<BlueRazzItem, Null>>)}

BuildOrders ==
  {[t |-> "object", id |-> Num(101), order_number |-> Num(1042),
    fulfillment_status |-> Str(FULFILLED), name |-> name, customer |-> customer,
    shipping_address |-> shipping, line_items |-> li] :
     name \in {Undefined, Str(ORDER_NAME)}, customer \in Customers,
     shipping \in ShippingAddresses, li \in BuildLineItems}

InitBuild ==
  /\ snapshot \in {1, 2}
  /\ secret = Undefined
  /\ sentOrders = {}
  /\ handled = 0
  /\ cur = Idle
  /\ tasks = <<>>
  /\ vIn \in BuildOrders
  /\ vOut = NotCalled

BuildCall ==
  /\ vOut = NotCalled
  /\ vOut' = IF snapshot = 1 THEN buildWebStockOrderFromShopify(vIn)
             ELSE buildWebStockOrderFromShopify2(vIn)
  /\ UNCHANGED <<snapshot, secret, sentOrders, handled, cur, tasks, vIn>>

NextBuild == BuildCall

SpecBuild == InitBuild /\ [][NextBuild]_vars

----------------------------------------------------------------------------
(* The vocabulary of the claims: what a request is, judged from its       *)
(* bytes and header alone.                                                *)

\* The body arrived as raw bytes and the header is the base64 HMAC-SHA256
\* of those bytes under the configured secret.
CorrectlySigned(req) ==
  /\ req.body.t = "buffer"
  /\ ~Falsy(secret)
  /\ req.hmac = HmacSha256Base64(secret, req.body)

IsJson(req) == req.body.t = "buffer" /\ req.body.text # Garbage

\* The JSON value of a body that IsJson.
Event(req) == req.body.text.json

\* A correctly signed body that is the JSON text of a non-null value.
AuthenticEvent(req) ==
  CorrectlySigned(req) /\ IsJson(req) /\ Event(req).t # "null"

\* An authentic event whose fulfillment status is the qualifying value.
QualifyingEvent(req) ==
  /\ AuthenticEvent(req)
  /\ Event(req).t = "object"
  /\ Event(req).fulfillment_status = Str(FULFILLED)

\* The order's line items are absent or a list of item objects.
ListedItems(order) ==
  \/ order.line_items.t = "undefined"
  \/ /\ order.line_items.t = "array"
     /\ \A k \in 1..Len(order.line_items.v) : order.line_items.v[k].t = "object"

Handling == cur # Idle

CallsFor(id) == {i \in 1..Len(tasks) : tasks[i].called /\ tasks[i].id = id}

----------------------------------------------------------------------------
(* C1 *)

\* C1: when two authenticated, well-formed, qualifying events for the same
\* order id are handled one after the other (the first has been answered,
\* whatever its result), the second is answered 200 "Already sent" and
\* exactly one outbound call was made for the id in total.
C1_SecondEventAlreadySent ==
  (/\ Handling
   /\ QualifyingEvent(cur.req)
   /\ ListedItems(Event(cur.req))
   /\ Event(cur.req).id.t = "number"
   /\ \E i \in 1..Len(tasks) :
        /\ tasks[i].n < cur.n
        /\ tasks[i].id = Event(cur.req).id
        /\ tasks[i].called
        /\ tasks[i].pc = "done")
  => /\ cur.out.status = 200
     /\ cur.out.reply = "Already sent"
     /\ Cardinality(CallsFor(Event(cur.req).id)) = 1

----------------------------------------------------------------------------
(* C2 *)

\* C2: under every interleaving of the handlers of qualifying events, at
\* most one outbound call is ever started for an order id; a handler that
\* starts a call found the id absent and inserted it in the same
\* synchronous run, before the call, so every id with a call is in the
\* registry.
C2_AtMostOneCallPerId ==
  /\ \A i, j \in 1..Len(tasks) :
       (tasks[i].called /\ tasks[j].called /\ tasks[i].id = tasks[j].id)
         => i = j
  /\ \A i \in 1..Len(tasks) : tasks[i].called => tasks[i].id \in sentOrders
  /\ (Handling /\ cur.out.pc = "fetch")
       => /\ cur.out.trace =
               <<"verify", "parse", "gate", "has", "add", "build", "fetch">>
          /\ cur.out.id \notin cur.before
          /\ cur.out.id \in sentOrders

\* Two events for one id are in flight together: the first is suspended at
\* the await of its outbound call when the second is answered.
C2_Witness ==
  /\ Len(tasks) = 2
  /\ tasks[1].id = tasks[2].id
  /\ tasks[1].pc = "fetch"
  /\ tasks[2].reply = "Already sent"
  /\ Handling /\ cur.n = 2 /\ QualifyingEvent(cur.req)

----------------------------------------------------------------------------
(* C3 *)

\* C3: an authentic event whose fulfillment status is absent, null or any
\* value other than "fulfilled" is answered 200 "No action", posts
\* nothing, starts no task and leaves the registry as it was, whatever
\* its line items and whatever the registry holds (both snapshots).
C3_NonQualifyingNoAction ==
  (/\ Handling
   /\ AuthenticEvent(cur.req)
   /\ Get(Event(cur.req), "fulfillment_status") # Str(FULFILLED))
  => /\ cur.out.status = 200
     /\ cur.out.reply = "No action"
     /\ cur.out.pc = "done"
     /\ cur.out.payload = Undefined
     /\ sentOrders = cur.before
     /\ \A i \in 1..Len(tasks) : tasks[i].n # cur.n

\* An event with a null status and no line items, for an id the registry
\* already holds, is answered "No action".
C3_Witness ==
  /\ Handling
  /\ AuthenticEvent(cur.req)
  /\ Event(cur.req).t = "object"
  /\ Event(cur.req).fulfillment_status = Null
  /\ Event(cur.req).line_items = Arr(<<>>)
  /\ Event(cur.req).id \in cur.before
  /\ cur.out.reply = "No action"

----------------------------------------------------------------------------
(* C4 *)

\* C4: once the outbound submission for an order id failed (the handler
\* answered 500 after its call), the id stays in the registry, no other
\* call is made for it, and every later qualifying event for it is
\* answered 200 "Already sent" without a call.
C4_FailedOrderStaysMarked ==
  /\ \A i \in 1..Len(tasks) :
       (tasks[i].called /\ tasks[i].status = 500)
         => /\ tasks[i].id \in sentOrders
            /\ \A j \in 1..Len(tasks) :
                 (j # i /\ tasks[j].id = tasks[i].id)
                   => /\ ~tasks[j].called
                      /\ j > i => tasks[j].reply = "Already sent"
  /\ (/\ Handling
      /\ QualifyingEvent(cur.req)
      /\ \E i \in 1..Len(tasks) :
           /\ tasks[i].n < cur.n
           /\ tasks[i].id = Event(cur.req).id
           /\ tasks[i].called
           /\ tasks[i].status = 500)
     => /\ cur.out.status = 200
        /\ cur.out.reply = "Already sent"
        /\ cur.out.payload = Undefined

\* The backend answered non-2xx to the first event's call, and a later
\* qualifying event for the same id is being answered.
C4_Witness ==
  /\ Handling
  /\ QualifyingEvent(cur.req)
  /\ \E i \in 1..Len(tasks) :
       /\ tasks[i].n < cur.n
       /\ tasks[i].id = Event(cur.req).id
       /\ tasks[i].backend = "non2xx"
       /\ tasks[i].status = 500
  /\ cur.out.reply = "Already sent"

----------------------------------------------------------------------------
(* C5 *)

\* The outbound submission of a task failed: its call was made and the
\* backend did not answer 2xx with a readable body.
SubmissionFailed(task) ==
  task.called /\ ~(task.backend = "2xx" /\ task.text = "text")

\* C5 as stated: 401 when the signature fails, 400 when the signed body is
\* not JSON, 500 when the outbound submission fails, 200 for every other
\* outcome, and nothing else decides the status.
C5_StatusByOutcome ==
  /\ (Handling /\ cur.out.status # 0)
       => cur.out.status =
            IF ~CorrectlySigned(cur.req) THEN 401
            ELSE IF ~IsJson(cur.req) THEN 400
            ELSE 200
  /\ \A i \in 1..Len(tasks) :
       tasks[i].pc = "done"
         => tasks[i].status = IF SubmissionFailed(tasks[i]) THEN 500 ELSE 200

\* The response the handler's synchronous part gives to a request, from
\* the request and the registry it found: <<status, text>>, <<0, "">>
\* when it gives none.
SyncAnswer(req, before) ==
  IF ~CorrectlySigned(req)
  THEN IF req.body.t = "buffer" \/ Falsy(secret) \/ Falsy(req.hmac)
       THEN <<401, "Unauthorized">>
       ELSE <<0, "">>
  ELSE IF ~IsJson(req) THEN <<400, "Invalid JSON">>
  ELSE IF Event(req).t = "null" THEN <<0, "">>
  ELSE IF ~QualifyingEvent(req) THEN <<200, "No action">>
  ELSE IF Event(req).id \in before THEN <<200, "Already sent">>
  ELSE IF ~ListedItems(Event(req)) THEN <<500, "Server error">>
  ELSE <<0, "">>

\* C5 amended: whenever the handler answers, the status is 401 when the
\* signature fails, 400 when the signed body is not JSON, 500 when the
\* outbound submission fails or building the document throws, 200
\* otherwise (no action, already sent, sent); 200 "sent" is given only
\* after the backend answered 2xx to this request's call.  The handler
\* gives no answer in its synchronous part only when it is suspended at
\* its call or an exception left it.
C5_StatusByOutcomeOrBuild ==
  /\ Handling
       => /\ <<cur.out.status, cur.out.reply>> = SyncAnswer(cur.req, cur.before)
          /\ cur.out.status = 0 => (cur.out.pc = "fetch" \/ cur.out.escaped)
  /\ \A i \in 1..Len(tasks) :
       /\ (tasks[i].pc = "done" /\ tasks[i].called)
            => <<tasks[i].status, tasks[i].reply>> =
                 IF SubmissionFailed(tasks[i])
                 THEN <<500, "Server error">>
                 ELSE <<200, "Order sent to WebStock (orders-updated)">>
       /\ tasks[i].reply = "Order sent to WebStock (orders-updated)"
            => tasks[i].called /\ tasks[i].backend = "2xx"

\* A qualifying event whose line_items is not a list of objects is
\* answered 500 although no submission was made.
C5_Witness ==
  /\ Handling
  /\ QualifyingEvent(cur.req)
  /\ ~ListedItems(Event(cur.req))
  /\ cur.out.status = 500
  /\ cur.out.payload = Undefined

----------------------------------------------------------------------------
(* C6 *)

\* C6: whatever the request, no exception leaves the handler, and a
\* handler that has ended has sent its response.
C6_EveryRequestAnswered ==
  Handling
    => /\ ~cur.out.escaped
       /\ cur.out.pc = "done" => cur.out.status # 0

----------------------------------------------------------------------------
(* C7 *)

\* C7: verification is the first step of every request, on the body as
\* received; a request whose signature is missing or invalid is not
\* parsed, not gated, not inserted in the registry and posts nothing, and
\* with a raw-bytes body it is answered 401.
C7_VerifyBeforeParse ==
  Handling
    => /\ Head(cur.out.trace) = "verify"
       /\ ~CorrectlySigned(cur.req)
            => /\ cur.out.trace = <<"verify">>
               /\ ~cur.out.gated
               /\ cur.out.payload = Undefined
               /\ cur.out.pc = "done"
               /\ sentOrders = cur.before
               /\ \A i \in 1..Len(tasks) : tasks[i].n # cur.n
               /\ cur.req.body.t = "buffer"
                    => /\ cur.out.status = 401
                       /\ cur.out.reply = "Unauthorized"

\* A fulfilled order with line items, signed with a key that is not the
\* shop's, is turned away.
C7_Witness ==
  /\ Handling
  /\ secret = ShopKey
  /\ IsJson(cur.req)
  /\ Event(cur.req).t = "object"
  /\ Event(cur.req).fulfillment_status = Str(FULFILLED)
  /\ Event(cur.req).line_items = Arr(<<BlueRazzItem>>)
  /\ cur.req.hmac = HmacSha256Base64(OtherKey, cur.req.body)
  /\ cur.out.status = 401

----------------------------------------------------------------------------
(* C8 *)

\* A request has just been received.
Received == cur = Idle /\ cur' # Idle

\* C8: the registry is empty at process start; no step removes an id; and
\* a qualifying event is treated as a duplicate exactly when its id is in
\* the registry (no other event is).
C8_RegistryGrowsAndDecides ==
  /\ sentOrders = {}
  /\ [][/\ sentOrders \subseteq sentOrders'
        /\ (Received /\ QualifyingEvent(cur'.req))
             => (cur'.out.reply = "Already sent"
                   <=> Event(cur'.req).id \in sentOrders)
        /\ (Received /\ ~QualifyingEvent(cur'.req))
             => cur'.out.reply # "Already sent"]_vars

\* An event for an id the registry holds is treated as a duplicate, and
\* the registry stays as it was.
C8_Witness ==
  /\ Handling
  /\ cur.out.reply = "Already sent"
  /\ Event(cur.req).id \in cur.before
  /\ sentOrders = cur.before

----------------------------------------------------------------------------
(* C9 *)

\* "GWT" followed by the decimal text of the sequence number
ExpectedOrderNumber(num) ==
  CASE num = Num(1042) -> Str(<<"G", "W", "T", "1", "0", "4", "2">>)
    [] num = Num(7) -> Str(<<"G", "W", "T", "7">>)
    [] num = Undefined ->
         Str(<<"G", "W", "T", "u", "n", "d", "e", "f", "i", "n", "e", "d">>)

\* The outbound line expected for a line item of the model's orders.
ExpectedLine(line, item) ==
  /\ line.ProductName = item.title
  /\ item = BlueRazzItem
       => /\ line.ArticleNumber =
               Str(<<"8", "7", "2", "0", "8", "9", "2", "6", "4", "2", "7", "1", "4">>)
          /\ line.QuantityOrdered = [t |-> "number", v |-> 200]
          /\ line.PricePerArticle = [t |-> "number", v |-> 950]
  /\ item = ColaItem
       => /\ line.ArticleNumber = Str(<<"C", "1">>)
          /\ line.QuantityOrdered = [t |-> "number", v |-> 100]
          /\ line.PricePerArticle = [t |-> "number", v |-> 125]

\* C9: a correctly signed, qualifying event for an order not yet in the
\* registry, whose line items are absent or a list of items, makes the
\* handler start exactly one outbound call, with a document whose order
\* number is "GWT" followed by the sequence number and whose lines are
\* those of the line items, one for one and in order; and a handler whose
\* call the backend answered 2xx answers 200 "Order sent".
C9_QualifyingOrderSubmitted ==
  /\ (/\ Handling
      /\ QualifyingEvent(cur.req)
      /\ ListedItems(Event(cur.req))
      /\ Event(cur.req).id \notin cur.before)
     => LET order == Event(cur.req)
            items == IF order.line_items.t = "array"
                     THEN order.line_items.v ELSE <<>>
        IN /\ cur.out.pc = "fetch"
           /\ Cardinality({i \in 1..Len(tasks) :
                             tasks[i].n = cur.n /\ tasks[i].called}) = 1
           /\ cur.out.payload.SalesOrderNumber =
                ExpectedOrderNumber(order.order_number)
           /\ Len(cur.out.payload.OrderLines.v) = Len(items)
           /\ \A k \in 1..Len(items) :
                ExpectedLine(cur.out.payload.OrderLines.v[k], items[k])
  /\ \A i \in 1..Len(tasks) :
       (tasks[i].called /\ tasks[i].backend = "2xx" /\ tasks[i].text = "text")
         => /\ tasks[i].status = 200
            /\ tasks[i].reply = "Order sent to WebStock (orders-updated)"

\* The order of the spec's example: sequence number 1042, one line titled
\* "Blue Razzberry", quantity 2, price "9.50"; its document is posted.
C9_Witness ==
  /\ Handling
  /\ QualifyingEvent(cur.req)
  /\ Event(cur.req).order_number = Num(1042)
  /\ Event(cur.req).line_items = Arr(<<BlueRazzItem>>)
  /\ cur.out.pc = "fetch"
  /\ Len(cur.out.payload.OrderLines.v) = 1

----------------------------------------------------------------------------
(* C10 *)

\* C10: on a raw-bytes body verifyShopifyHmac never throws, and returns
\* true exactly when the secret is configured, the header is present and
\* not empty, and the header is the base64 HMAC-SHA256 of the body under
\* the secret.
C10_VerifyExact ==
  (vOut # "none" /\ vIn.body.t = "buffer")
    => /\ vOut \in {"true", "false"}
       /\ vOut = "true"
            <=> /\ secret.t = "string"
                /\ secret.v # <<>>
                /\ vIn.hmac.t # "undefined"
                /\ vIn.hmac # Str(<<>>)
                /\ vIn.hmac = HmacSha256Base64(secret, vIn.body)

\* A header of another length than the digest: the comparison throws and
\* the result is false.
C10_Witness ==
  /\ vOut = "false"
  /\ secret = ShopKey
  /\ vIn.body.t = "buffer"
  /\ vIn.hmac = ShortHeader

----------------------------------------------------------------------------
(* C11 *)

\* The keys of the static mapping and their codes.
StaticKeys == {FRUIT_PUNCH, BLUE_RAZZBERRY, JUICY_MANGO, ORANGE_BLAST}

MappedCode(key) ==
  CASE key = FRUIT_PUNCH ->
         Str(<<"8", "7", "2", "0", "8", "9", "2", "6", "4", "2", "7", "3", "8">>)
    [] key = BLUE_RAZZBERRY ->
         Str(<<"8", "7", "2", "0", "8", "9", "2", "6", "4", "2", "7", "1", "4">>)
    [] key = JUICY_MANGO ->
         Str(<<"8", "7", "2", "0", "8", "9", "2", "6", "4", "2", "7", "5", "2">>)
    [] key = ORANGE_BLAST ->
         Str(<<"8", "7", "2", "0", "8", "9", "2", "6", "4", "2", "7", "7", "6">>)

\* A field that is there and not empty.
Present(v) == v.t \notin {"undefined", "null"} /\ v # Str(<<>>)

\* The title, trimmed and lowercased (the empty text when there is none).
TitleKey(item) ==
  IF Present(item.title) THEN toLowerCase(trim(item.title.v)) ELSE <<>>

\* C11: for every line item, when the title, trimmed and lowercased, is a
\* key of the static mapping, the article code and the EAN code are both
\* the mapped code; otherwise the EAN code is the empty string and the
\* article code is the SKU if present, else the raw title if present, else
\* "UNKNOWN".
C11_ResolutionByPriority ==
  vOut # NotCalled
    => IF TitleKey(vIn) \in StaticKeys
       THEN /\ vOut.articleNumber = MappedCode(TitleKey(vIn))
            /\ vOut.ean = MappedCode(TitleKey(vIn))
       ELSE /\ vOut.ean = Str(<<>>)
            /\ vOut.articleNumber =
                 IF Present(vIn.sku) THEN vIn.sku
                 ELSE IF Present(vIn.title) THEN vIn.title
                 ELSE Str(UNKNOWN)

----------------------------------------------------------------------------
(* C12 *)

\* The input of decompose as text, trimmed (empty when there is none).
TrimmedLine(address) ==
  IF Falsy(address) THEN <<>> ELSE trim(JsString(address))

\* The position of the last whitespace character of s, 0 when none.
LastSpace(s) ==
  LET ps == {q \in 1..Len(s) : s[q] \in SpaceChars} \cup {0}
  IN CHOOSE q \in ps : \A r \in ps : r <= q

\* The last whitespace-delimited token of s and the text before it.
LastToken(s) == SubSeq(s, LastSpace(s) + 1, Len(s))
BeforeLastToken(s) == trim(SubSeq(s, 1, LastSpace(s)))

\* A whitespace-preceded last token that starts with a digit and is made
\* of letters, digits, hyphens and slashes only.
EndsWithHouseToken(s) ==
  /\ LastSpace(s) > 0
  /\ LastToken(s) # <<>>
  /\ IsDigit(Head(LastToken(s)))
  /\ \A q \in 1..Len(LastToken(s)) : LastToken(s)[q] \in ClassChars

WholeLineIsStreet(line, out) ==
  /\ out.street = Str(line)
  /\ out.houseNumber = Str(<<>>)
  /\ out.houseNumberAddition = Str(<<>>)

\* C12 as stated: when the trimmed input ends with a whitespace-preceded
\* token of leading digits followed only by letters, digits, hyphens or
\* slashes, the street is what precedes the token, the house number is
\* the token's leading digit run and the addition is the rest of the
\* token; in every other case the whole trimmed input is the street and
\* the other two parts are empty.
C12_DecomposeByLastToken ==
  vOut # NotCalled
    => LET line == TrimmedLine(vIn)
           token == LastToken(line)
           digits == DigitRun(token)
       IN IF EndsWithHouseToken(line)
          THEN /\ vOut.street = Str(BeforeLastToken(line))
               /\ vOut.houseNumber = Str(digits)
               /\ vOut.houseNumberAddition =
                    Str(SubSeq(token, Len(digits) + 1, Len(token)))
          ELSE WholeLineIsStreet(line, vOut)

\* C12 amended: the token is split after its first five digits at most
\* (later digits belong to the addition), and a line whose text before
\* the token holds a line break is not split at all.  The result is
\* always three texts, never an error.
C12_DecomposeFiveDigitsOneLine ==
  vOut # NotCalled
    => LET line == TrimmedLine(vIn)
           token == LastToken(line)
           digits == DigitRun(token)
           house == SubSeq(digits, 1, Min(5, Len(digits)))
       IN /\ vOut.t = "object"
          /\ vOut.street.t = "string"
          /\ vOut.houseNumber.t = "string"
          /\ vOut.houseNumberAddition.t = "string"
          /\ IF /\ EndsWithHouseToken(line)
                /\ \A q \in 1..Len(BeforeLastToken(line)) :
                     BeforeLastToken(line)[q] \notin LineBreaks
             THEN /\ vOut.street = Str(BeforeLastToken(line))
                  /\ vOut.houseNumber = Str(house)
                  /\ vOut.houseNumberAddition =
                       Str(SubSeq(token, Len(house) + 1, Len(token)))
             ELSE WholeLineIsStreet(line, vOut)

\* "Main Street 10-3" has been split into "Main Street", "10" and "-3".
C12_Witness ==
  /\ vIn = Str(MAIN_STREET \o <<" ", "1", "0", "-", "3">>)
  /\ vOut # NotCalled
  /\ vOut.street = Str(MAIN_STREET)
  /\ vOut.houseNumber = Str(<<"1", "0">>)
  /\ vOut.houseNumberAddition = Str(<<"-", "3">>)

----------------------------------------------------------------------------
(* C13 *)

\* C13: a call of sendOrderToWebStock posts once and never again; when
\* the backend answers 2xx and the body is read, it returns the body
\* text; when the backend answers anything else and the body is read, it
\* throws an error with the status and the body, and the handler answers
\* 500 having posted once.
C13_OnePostNoRetry ==
  \A i \in 1..Len(tasks) :
    /\ tasks[i].posts = IF tasks[i].called THEN 1 ELSE 0
    /\ (tasks[i].pc = "done" /\ tasks[i].text = "text")
         => IF tasks[i].backend = "2xx"
            THEN tasks[i].result = [t |-> "return", text |-> "text"]
            ELSE /\ tasks[i].result.t = "throw"
                 /\ tasks[i].result.status = tasks[i].backend
                 /\ tasks[i].result.text = "text"
                 /\ tasks[i].status = 500
                 /\ tasks[i].reply = "Server error"

\* The backend answered non-2xx and the handler has answered 500.
C13_Witness ==
  \E i \in 1..Len(tasks) :
    /\ tasks[i].pc = "done"
    /\ tasks[i].backend = "non2xx"
    /\ tasks[i].text = "text"
    /\ tasks[i].posts = 1
    /\ tasks[i].status = 500

----------------------------------------------------------------------------
(* C14 *)

\* The decimal value, in hundredths, of the decimal texts among the prices.
DecimalValue(text) ==
  CASE text = <<"9", ".", "5", "0">> -> 950
    [] text = <<"1", "2">> -> 1200
    [] text = <<"0", ".", "0", "5">> -> 5

IsDecimalText(v) ==
  /\ v.t = "string"
  /\ v.v \in {<<"9", ".", "5", "0">>, <<"1", "2">>, <<"0", ".", "0", "5">>}

\* C14: the quantity and the unit price of the outbound line are numbers;
\* the quantity is the item's quantity when that is a number and 0 when
\* it is absent or not numeric; the unit price is the decimal value of
\* the item's price when that is a number or a decimal text and 0 when it
\* is absent or not numeric.
C14_QuantityAndPriceNumbers ==
  vOut # NotCalled
    => /\ vOut.QuantityOrdered.t = "number"
       /\ vOut.QuantityOrdered.v =
            IF vIn.quantity.t = "number" THEN vIn.quantity.v ELSE 0
       /\ vOut.PricePerArticle.t = "number"
       /\ vOut.PricePerArticle.v =
            IF vIn.price.t = "number" THEN vIn.price.v
            ELSE IF IsDecimalText(vIn.price) THEN DecimalValue(vIn.price.v)
            ELSE 0

----------------------------------------------------------------------------
(* C15 *)

\* The text of a field, empty when the field is absent, null or empty.
TextOf(v) == IF Present(v) THEN v.v ELSE <<>>

\* First name and last name joined by a space and trimmed.
FullName(rec) ==
  trim(TextOf(Get(rec, "first_name")) \o <<" ">> \o TextOf(Get(rec, "last_name")))

Built == vOut # NotCalled /\ vOut.t = "object"

\* The first non-empty of: the customer's first and last name, the
\* shipping address's name, the order's display reference.
NameByCustomerPriority(order) ==
  IF FullName(Get(order, "customer")) # <<>>
  THEN Str(FullName(Get(order, "customer")))
  ELSE IF Present(Get(Get(order, "shipping_address"), "name"))
  THEN Get(Get(order, "shipping_address"), "name")
  ELSE Get(order, "name")

\* C15 as stated: the customer name of the outbound document is the first
\* non-empty of the customer's joined first and last name, the shipping
\* address's name and the order's display reference.
C15_CustomerNameByPriority ==
  Built => vOut.CustomerName = NameByCustomerPriority(vIn)

\* C15 amended: that holds of the second snapshot.  In the first snapshot
\* the customer name is the fixed main customer, and the name of the
\* second address block is the first non-empty of the shipping address's
\* company, its joined first and last name and its name, else empty.
C15_CustomerNameBySnapshot ==
  Built =>
    IF snapshot = 2
    THEN vOut.CustomerName = NameByCustomerPriority(vIn)
    ELSE LET shipping == Get(vIn, "shipping_address")
         IN /\ vOut.CustomerName = Str(<<"G", "W", "T", "-", "S", "B", "G", " ", "B", "V">>)
            /\ vOut.Address2Name =
                 IF Present(Get(shipping, "company")) THEN Get(shipping, "company")
                 ELSE IF FullName(shipping) # <<>> THEN Str(FullName(shipping))
                 ELSE IF Present(Get(shipping, "name")) THEN Get(shipping, "name")
                 ELSE Str(<<>>)

\* The second snapshot has built the document of an order whose customer
\* has no name and whose shipping address has one: the shipping name is
\* the customer name.
C15_Witness ==
  /\ Built
  /\ snapshot = 2
  /\ FullName(Get(vIn, "customer")) = <<>>
  /\ Get(vIn, "name") = Str(ORDER_NAME)
  /\ vOut.CustomerName = Str(J_JANSEN)

----------------------------------------------------------------------------
(* C16 *)

\* The order's line items: none when it has no list.
ItemsOf(order) ==
  IF order.line_items.t = "array" THEN order.line_items.v ELSE <<>>

\* The order has no line-item list, or a list of line items.
HasItemListOrNone(order) ==
  \/ order.line_items.t \in {"undefined", "null"}
  \/ /\ order.line_items.t = "array"
     /\ \A k \in 1..Len(order.line_items.v) : order.line_items.v[k].t = "object"

\* C16: the transformer gives one document whose lines are as many as the
\* order's line items, the k-th line made from the k-th item; an order
\* with no list of line items gives a document with no lines (both
\* snapshots).
C16_LinesFollowItems ==
  (vOut # NotCalled /\ HasItemListOrNone(vIn))
    => /\ vOut.t = "object"
       /\ vOut.OrderLines.t = "array"
       /\ Len(vOut.OrderLines.v) = Len(ItemsOf(vIn))
       /\ \A k \in 1..Len(ItemsOf(vIn)) :
            ExpectedLine(vOut.OrderLines.v[k], ItemsOf(vIn)[k])

\* A document of three lines has been built from three line items that
\* are not all the same.
C16_Witness ==
  /\ Built
  /\ vIn.line_items = Arr(<<BlueRazzItem, ColaItem, BlueRazzItem>>)
  /\ Len(vOut.OrderLines.v) = 3

----------------------------------------------------------------------------
(* C17 *)

\* C17: the registry changes in one kind of step only, the handling of a
\* correctly signed, well-formed, qualifying event whose order id is not
\* yet a member, and that step adds that id and nothing else; every other
\* step (401, 400, no action, already sent, the end or the failure of a
\* submission) leaves it as it is.
C17_RegistryFrame ==
  [][sentOrders' =
       IF /\ Received
          /\ QualifyingEvent(cur'.req)
          /\ Event(cur'.req).id \notin sentOrders
       THEN sentOrders \cup {Event(cur'.req).id}
       ELSE sentOrders]_vars

\* The handling of a second qualifying event has added its id to a
\* registry that held another one.
C17_Witness ==
  /\ Handling
  /\ QualifyingEvent(cur.req)
  /\ cur.before # {}
  /\ Event(cur.req).id \notin cur.before
  /\ sentOrders = cur.before \cup {Event(cur.req).id}

----------------------------------------------------------------------------
(* C18 *)

\* An earlier handler that recorded the id and failed to build the document.
BuildFailedFor(id, n) ==
  \E i \in 1..Len(tasks) :
    /\ tasks[i].n < n
    /\ tasks[i].id = id
    /\ ~tasks[i].called
    /\ tasks[i].status = 500

\* C18: the id is inserted before the document is built: a qualifying
\* event for a new id whose document cannot be built (line_items is not a
\* list, or holds null) is answered 500 with no outbound call, and its id
\* is in the registry; every later qualifying event for that id is
\* answered "Already sent", and no call is ever made for the id.
C18_BuildFailureKeepsMark ==
  /\ (/\ Handling
      /\ QualifyingEvent(cur.req)
      /\ ~ListedItems(Event(cur.req))
      /\ Event(cur.req).id \notin cur.before)
     => /\ cur.out.trace = <<"verify", "parse", "gate", "has", "add", "build">>
        /\ cur.out.status = 500
        /\ cur.out.reply = "Server error"
        /\ cur.out.payload = Undefined
        /\ cur.out.pc = "done"
        /\ \A i \in 1..Len(tasks) : tasks[i].n = cur.n => ~tasks[i].called
        /\ Event(cur.req).id \in sentOrders
  /\ \A i \in 1..Len(tasks) :
       (~tasks[i].called /\ tasks[i].status = 500)
         => /\ tasks[i].id \in sentOrders
            /\ CallsFor(tasks[i].id) = {}
  /\ (/\ Handling
      /\ QualifyingEvent(cur.req)
      /\ BuildFailedFor(Event(cur.req).id, cur.n))
     => /\ cur.out.status = 200
        /\ cur.out.reply = "Already sent"
        /\ cur.out.payload = Undefined

\* After a first event whose line items could not be built, a second
\* event for the same id, with a proper list of line items, is answered
\* "Already sent".
C18_Witness ==
  /\ Handling
  /\ QualifyingEvent(cur.req)
  /\ Event(cur.req).id.t = "number"
  /\ Event(cur.req).line_items = Arr(<<BlueRazzItem>>)
  /\ BuildFailedFor(Event(cur.req).id, cur.n)
  /\ cur.out.reply = "Already sent"

----------------------------------------------------------------------------
(* C19 *)

\* An earlier event with this id passed the gate.
GatedBefore(id, n) ==
  \E i \in 1..Len(tasks) : tasks[i].n < n /\ tasks[i].id = id

\* C19: a qualifying event is answered "Already sent" exactly when an
\* earlier event with the same id value passed the gate; whatever other
\* ids the registry holds, the first qualifying event for an id is pushed
\* (or fails to build), never suppressed.  The key is the id as parsed:
\* the events without an id count as events for one id.
C19_OnlySameIdSuppresses ==
  (Handling /\ QualifyingEvent(cur.req))
    => LET id == Get(Event(cur.req), "id")
       IN /\ cur.out.reply = "Already sent" <=> GatedBefore(id, cur.n)
          /\ ~GatedBefore(id, cur.n)
               => /\ cur.out.pc = "fetch" <=> ListedItems(Event(cur.req))
                  /\ cur.out.pc = "fetch" => cur.out.payload.SalesOrderExternId = id
          /\ GatedBefore(id, cur.n) => id \in cur.before

\* The registry holds the key of an event without an id, and the first
\* event for order 101 is pushed.
C19_Witness ==
  /\ Handling
  /\ QualifyingEvent(cur.req)
  /\ cur.before = {Undefined}
  /\ Event(cur.req).id = Num(101)
  /\ cur.out.pc = "fetch"

====
